---- MODULE Spec2Model ----
(***************************************************************************)
(* Model of the request processor (src/main.go): one HTTP request handled  *)
(* by handleTerraformRequest, which generates Terraform code with the LLM  *)
(* and drives it through executeTerraformAction, the bounded retry loop    *)
(* that prepares the remote workspace, runs plan/apply/destroy and asks    *)
(* the LLM for corrected code after a failed result.                       *)
(*                                                                         *)
(* Texts that the program inspects (code, error text) are sequences of     *)
(* one-character strings; texts it only copies (description, context,     *)
(* workspace, output) are plain strings.                                   *)
(***************************************************************************)
EXTENDS Integers, Sequences, FiniteSets, TLC

VARIABLES
    pc,              \* position of the request inside the handler / loop
    req,             \* the decoded TerraformRequest (after defaulting)
    codeContent,     \* handler local `codeContent` (live inside its block)
    code,            \* handler local `code`
    attempt,         \* loop variable of executeTerraformAction
    lastCode,        \* executeTerraformAction local
    lastError,       \* executeTerraformAction local
    response,        \* executeTerraformAction local, a TerraformResponse pointer
    prepCode,        \* parameter `code` of the running prepareWorkspace
    prepCalls,       \* history: the RPCs that prepareWorkspace has issued, in order
    prompt,          \* the prompt of the LLM request that has just been made
    ret,             \* what executeTerraformAction returned
    http,            \* what the handler wrote to the ResponseWriter
    staged,          \* executor side: main.tf of the (context, workspace)
    iterations,      \* history: loop bodies entered
    actionCalls,     \* history: Plan/Apply/Destroy RPCs issued
    allFailed,       \* history: every loop body so far ended in a failed result
    genCalls,        \* history: LLM requests issued by the retry loop
    genFailures,     \* history: those of them that failed
    handlerGenCalls, \* history: LLM requests issued by the handler
    sleeps,          \* history: time.Sleep calls
    refusals,        \* history: preparation RPCs answered success=false
    execResult,      \* history: what the executor answered to that RPC
    execStaged,      \* history: the main.tf that was staged when that RPC was issued
    cancelledAt,     \* the request's context: where the run stood when it was cancelled
    tfError,         \* local `tfError` of the analysis block (live inside the block)
    mainTfErr        \* handler local: GetMainTf returned no content (live inside its block)

vars == <<pc, req, codeContent, code, attempt, lastCode, lastError, response, prepCode,
          prepCalls,
          prompt, ret, http, staged, iterations, actionCalls, allFailed,
          genCalls, genFailures,
          handlerGenCalls, sleeps, refusals, execResult, execStaged,
          cancelledAt, tfError, mainTfErr>>

\* ---------------------------------------------------------------- bounds
NumBodies == 2      \* distinct code bodies the LLM may answer with
MaxRefusals == 1    \* preparation RPCs answered success=false in one run
MaxLines == 4       \* lines of an error text handed to parseTerraformError

\* ------------------------------------------------------ program constants
MaxAttempts == 5

\* --------------------------------------------------------- package strings
HasPrefix(s, p) == Len(s) >= Len(p) /\ SubSeq(s, 1, Len(p)) = p

HasSuffix(s, p) == Len(s) >= Len(p) /\ SubSeq(s, Len(s) - Len(p) + 1, Len(s)) = p

TrimPrefix(s, p) == IF HasPrefix(s, p) THEN SubSeq(s, Len(p) + 1, Len(s)) ELSE s

TrimSuffix(s, p) == IF HasSuffix(s, p) THEN SubSeq(s, 1, Len(s) - Len(p)) ELSE s

IsSpace(c) == c \in {" ", "\n", "\t", "\r"}

RECURSIVE TrimLeft(_)
TrimLeft(s) == IF s # <<>> /\ IsSpace(Head(s)) THEN TrimLeft(Tail(s)) ELSE s

RECURSIVE TrimRight(_)
TrimRight(s) ==
    IF s # <<>> /\ IsSpace(s[Len(s)]) THEN TrimRight(SubSeq(s, 1, Len(s) - 1)) ELSE s

TrimSpace(s) == TrimRight(TrimLeft(s))

Contains(s, sub) ==
    \E i \in 1..(Len(s) - Len(sub) + 1) : SubSeq(s, i, i + Len(sub) - 1) = sub

\* strings.Split(s, sep) for a one-character separator: always at least one
\* element, the empty text splits into one empty line
RECURSIVE SplitFrom(_, _, _)
SplitFrom(s, sep, cur) ==
    IF s = <<>> THEN <<cur>>
    ELSE IF Head(s) = sep THEN <<cur>> \o SplitFrom(Tail(s), sep, <<>>)
    ELSE SplitFrom(Tail(s), sep, Append(cur, Head(s)))

Split(s, sep) == SplitFrom(s, sep, <<>>)

\* ------------------------------------------------------------------ texts
\* the backquote character, which a TLA+ string cannot hold
BQ == "bq"

FenceHcl == <<BQ, BQ, BQ, "h", "c", "l">>
FenceTerraform == <<BQ, BQ, BQ, "t", "e", "r", "r", "a", "f", "o", "r", "m">>
Fence == <<BQ, BQ, BQ>>
Marker == <<"w", "i", "t", "h">>

BodyNames == <<"A", "B", "C", "D">>
Bodies == {<<BodyNames[i]>> : i \in 1..NumBodies}

\* what the executor prints: copied by the program, never inspected
Outputs == {"out1", "out2"}

\* what the LLM may send back: a bare body, a fenced body, or nothing
RawResponses ==
    {<<>>} \cup Bodies
    \cup {FenceHcl \o <<"\n">> \o b \o <<"\n">> \o Fence : b \in Bodies}
    \cup {FenceTerraform \o <<"\n">> \o b \o <<"\n">> : b \in Bodies}
    \cup {<<" ">> \o b \o Fence : b \in Bodies}

\* error texts of the executor: none, or a diagnostic block
ErrorTexts ==
    {<<>>,
     <<"E", "\n", " ">> \o Marker \o <<"\n", "\n", " ">> \o <<"r", "1", " ">>}

\* Go errors, by the message that identifies their origin; NoError is nil
NoError == "nil"
ErrClear == "clear code failed"
ErrCreateContext == "workspace initialization failed: failed to create context"
ErrCreateWorkspace == "workspace initialization failed: failed to create workspace"
ErrAppend == "append code failed"
ErrGenerate == "failed to generate code"
ErrRpc == "rpc error"
ErrUnknownAction == "unknown action"

PrepErrors == {ErrClear, ErrCreateContext, ErrCreateWorkspace, ErrAppend}
CollaboratorErrors == PrepErrors \cup {ErrGenerate, ErrRpc}

\* a TerraformResponse pointer; isNil marks the nil pointer
NilResponse ==
    [isNil |-> TRUE, Success |-> FALSE, Code |-> <<>>, Output |-> "", Error |-> <<>>]

TerraformResponse(success, output, error) ==
    [isNil |-> FALSE, Success |-> success, Code |-> <<>>, Output |-> output, Error |-> error]

\* a TerraformError pointer; isNil marks the nil pointer
NilTerraformError ==
    [isNil |-> TRUE, Message |-> <<>>, TerraformOutput |-> "", Resource |-> <<>>]

NoPrompt == [kind |-> "none", description |-> "", code |-> <<>>, output |-> "", message |-> <<>>]

NoReturn == [returned |-> FALSE, resp |-> NilResponse, err |-> NoError]

NoHttp == [status |-> 0, body |-> NilResponse]

NoRequest == [Description |-> "", Context |-> "", Workspace |-> "", Action |-> ""]

\* ----------------------------------------------------------- inputs
Request(d, c, w, a) == [Description |-> d, Context |-> c, Workspace |-> w, Action |-> a]

\* decoded bodies: every action string the switch distinguishes, with and
\* without a description, with and without context and workspace
Requests ==
    {Request("create a droplet", "prod", "dev", "plan"),
     Request("create a droplet", "", "", ""),
     Request("create a droplet", "prod", "dev", "apply"),
     Request("", "prod", "dev", "apply"),
     Request("", "", "dev", "plan"),
     Request("remove the droplet", "prod", "dev", "destroy"),
     Request("", "prod", "", "destroy"),
     Request("create a droplet", "prod", "dev", "resize")}

\* outcome of a preparation RPC: answered success=true, answered
\* success=false with an error string, or failed at transport level
PrepOutcomes == {"ok", "refused", "transport"}

\* the outcomes that tell the program apart: the call returned nil or an error
PrepAnswers == {"ok", "transport"}

\* outcome of Plan/Apply/Destroy: transport error, or a response message
RpcOutcomes ==
    {[transport |-> TRUE, Success |-> FALSE, Output |-> "", Error |-> <<>>]}
    \cup [transport : {FALSE}, Success : BOOLEAN, Output : Outputs, Error : ErrorTexts]

\* outcome of the LLM request: failure, or the raw text of the message
LlmOutcomes ==
    {[failed |-> TRUE, text |-> <<>>]} \cup [failed : {FALSE}, text : RawResponses]

\* ------------------------------------------------------- prompt builders
generateModificationPrompt(description, existingCode) ==
    [kind |-> "modification", description |-> description, code |-> existingCode,
     output |-> "", message |-> <<>>]

generateErrorPrompt(originalDescription, c, tfe) ==
    [kind |-> "error", description |-> originalDescription, code |-> c,
     output |-> tfe.TerraformOutput, message |-> tfe.Message]

generateInitialInfrastructurePrompt(description) ==
    [kind |-> "initial", description |-> description, code |-> <<>>,
     output |-> "", message |-> <<>>]

\* faulty variant: the existing code is looked at before the failure record
SelectPromptCodeFirst(description, previousError, existingCode) ==
    IF existingCode # <<>> THEN generateModificationPrompt(description, existingCode)
    ELSE IF ~previousError.isNil THEN generateErrorPrompt(description, existingCode, previousError)
    ELSE generateInitialInfrastructurePrompt(description)

\* generateTerraformCode, first half: the prompt sent to the LLM
SelectPrompt(description, previousError, existingCode) ==
    IF ~previousError.isNil THEN generateErrorPrompt(description, existingCode, previousError)
    ELSE IF existingCode # <<>> THEN generateModificationPrompt(description, existingCode)
    ELSE generateInitialInfrastructurePrompt(description)

\* generateTerraformCode, second half: the code cut out of the LLM's text
ExtractCode(text) ==
    TrimSpace(TrimSuffix(TrimPrefix(TrimPrefix(text, FenceHcl), FenceTerraform), Fence))

\* generateTerraformCode as a whole, for one outcome of the LLM request
generateTerraformCode(description, previousError, existingCode, llm) ==
    [prompt |-> SelectPrompt(description, previousError, existingCode),
     code |-> IF llm.failed THEN <<>> ELSE ExtractCode(llm.text),
     err |-> IF llm.failed THEN ErrGenerate ELSE NoError]

\* ---------------------------------------------------- parseTerraformError
Min(S) == CHOOSE x \in S : \A y \in S : x <= y

MarkerLines(lines) ==
    {j \in 1..Len(lines) : Contains(lines[j], Marker) /\ j + 2 <= Len(lines)}

\* faulty variant: the line right after the marker line is taken
parseTerraformErrorNextLine(resp) ==
    LET lines == Split(resp.Error, "\n")
        hits == {j \in 1..Len(lines) : Contains(lines[j], Marker) /\ j + 1 <= Len(lines)}
    IN [isNil |-> FALSE,
        Message |-> resp.Error,
        TerraformOutput |-> resp.Output,
        Resource |-> IF hits # {} THEN TrimSpace(lines[Min(hits) + 1]) ELSE <<>>]

parseTerraformError(resp) ==
    LET lines == Split(resp.Error, "\n")
        hits == MarkerLines(lines)
    IN [isNil |-> FALSE,
        Message |-> resp.Error,
        TerraformOutput |-> resp.Output,
        Resource |-> IF Contains(resp.Error, Marker) /\ hits # {}
                     THEN TrimSpace(lines[Min(hits) + 2])
                     ELSE <<>>]

\* ------------------------------------------------------------ executeAction
KnownActions == {"plan", "apply", "destroy"}

\* faulty variant: the switch has no default branch
executeActionWithoutDefault(action, rpc) ==
    IF rpc.transport THEN [resp |-> NilResponse, err |-> ErrRpc]
    ELSE [resp |-> TerraformResponse(rpc.Success, rpc.Output, rpc.Error), err |-> NoError]

\* the switch of executeAction for one outcome of the RPC it issues; an
\* unknown action issues no RPC
executeAction(action, rpc) ==
    IF action \notin KnownActions THEN [resp |-> NilResponse, err |-> ErrUnknownAction]
    ELSE IF rpc.transport THEN [resp |-> NilResponse, err |-> ErrRpc]
    ELSE [resp |-> TerraformResponse(rpc.Success, rpc.Output, rpc.Error), err |-> NoError]

\* ------------------------------------------- executeTerraformAction: pieces
\* faulty variant: the loop condition off by one
LoopConditionOffByOne(a) == a <= MaxAttempts

\* loop condition (for attempt := 0; attempt < MaxAttempts; attempt++)
LoopCondition(a) == a < MaxAttempts

\* faulty variant: the analysis block entered in every attempt
NeedsRegenerationAlways(a, resp) == a >= 0

\* guard of the "Previous Attempt Analysis" block
NeedsRegeneration(a, resp) == a > 0 /\ ~resp.isNil

\* faulty variant: the error test of the success check inverted
IsSuccessInverted(resp) == resp.Success /\ resp.Error # <<>>

\* the success test of a result
IsSuccess(resp) == resp.Success /\ resp.Error = <<>>

\* the last-attempt test
IsLastAttempt(a) == a = MaxAttempts - 1

\* faulty variant: lastCode assigned before the error of the generation is looked at
CodeAfterGenerationUnchecked(old, gen) == gen.code

\* lastCode after the generation call returned (newCode, err)
CodeAfterGeneration(old, gen) == IF gen.err # NoError THEN old ELSE gen.code

\* faulty variant: the attempt goes on to the action after a failed generation
AfterGenerationIgnoresError(gen) == "executeAction"

\* after the generation call: the error path waits and continues the loop,
\* otherwise the attempt goes on to executeAction
AfterGeneration(gen) == IF gen.err # NoError THEN "sleepGenerate" ELSE "executeAction"

\* the return of a successful result, annotated with lastCode
SuccessReturn(resp, lc) == [returned |-> TRUE, resp |-> [resp EXCEPT !.Code = lc], err |-> NoError]

\* faulty variant: exhaustion drops the result
ExhaustedReturnDropsResult(resp, lerr) == [returned |-> TRUE, resp |-> NilResponse, err |-> lerr]

\* faulty variant: exhaustion reported as an error
ExhaustedReturnAsError(resp, lerr) ==
    [returned |-> TRUE, resp |-> resp, err |-> "all attempts failed"]

\* the return of the last attempt's failed result
ExhaustedReturn(resp, lerr) == [returned |-> TRUE, resp |-> resp, err |-> NoError]

\* faulty variant: the return after the loop forgets lastError
FallThroughReturnDropsError(resp, lerr) == [returned |-> TRUE, resp |-> resp, err |-> NoError]

\* the return after the loop
FallThroughReturn(resp, lerr) == [returned |-> TRUE, resp |-> resp, err |-> lerr]

\* faulty variant: a failed preparation returns no error
PrepFailureReturnNoError(err) == [returned |-> TRUE, resp |-> NilResponse, err |-> NoError]

\* the return on a failed preparation
PrepFailureReturn(err) == [returned |-> TRUE, resp |-> NilResponse, err |-> err]

\* ------------------------------------------------------ the executor side
\* The executor is a remote service; its effect on the staged main.tf is
\* taken from its interface: ClearCode empties it, AppendCode appends to it,
\* GetMainTf reads it.
ExecutorClear(st) == <<>>

ExecutorAppend(st, c) == st \o c

ExecutorMainTf(st) == st

\* ------------------------------------------------- the request's context
NotCancelled == "none"

Cancelled == cancelledAt # NotCancelled

\* a call that is handed a context that is already done returns an error
CtxAllows(failed) == Cancelled => failed

NoRpc == [transport |-> TRUE, Success |-> FALSE, Output |-> "", Error |-> <<>>]

ExistingCodes == {<<>>} \cup {<<BodyNames[1]>>}

\* ---------------------------------------------------------------- Init
Init ==
    /\ pc = "idle"
    /\ req = NoRequest
    /\ codeContent = <<>>
    /\ code = <<>>
    /\ attempt = 0
    /\ lastCode = <<>>
    /\ lastError = NoError
    /\ response = NilResponse
    /\ prepCode = <<>>
    /\ prepCalls = <<>>
    /\ prompt = NoPrompt
    /\ ret = NoReturn
    /\ http = NoHttp
    /\ staged \in ExistingCodes
    /\ iterations = 0
    /\ actionCalls = 0
    /\ allFailed = TRUE
    /\ genCalls = 0
    /\ genFailures = 0
    /\ handlerGenCalls = 0
    /\ sleeps = 0
    /\ refusals = 0
    /\ execResult = NoRpc
    /\ execStaged = <<>>
    /\ cancelledAt = NotCancelled
    /\ tfError = NilTerraformError
    /\ mainTfErr = FALSE

history == <<iterations, actionCalls, allFailed, genCalls, genFailures, handlerGenCalls,
             sleeps, refusals, execResult, execStaged>>

\* ------------------------------------------------------------- loop head
\* Evaluate the loop condition for attempt a: either enter the body, whose
\* first statement calls prepareWorkspace(..., lastCode), or leave the loop
\* and return (response, lastError).
LoopHead(a, lc, resp, lerr) ==
    /\ attempt' = a
    /\ IF LoopCondition(a)
       THEN /\ pc' = "clearCode"
            /\ prepCode' = lc
            /\ prepCalls' = <<>>
            /\ iterations' = iterations + 1
            /\ ret' = ret
       ELSE /\ pc' = "returned"
            /\ ret' = FallThroughReturn(resp, lerr)
            /\ UNCHANGED <<prepCode, prepCalls, iterations>>

\* entry of executeTerraformAction(ctx, action, description, code, ...)
EnterRun(c) ==
    /\ lastError' = NoError
    /\ lastCode' = c
    /\ response' = NilResponse
    /\ LoopHead(0, c, NilResponse, NoError)

\* ------------------------------------------------- handleTerraformRequest
DefaultContext(c) == IF c = "" THEN "default" ELSE c

DefaultAction(a) == IF a = "" THEN "plan" ELSE a

Placeholder == "Please check that code is correct"

\* decode the body, apply the defaults, branch on destroy
HandleRequest(r) ==
    /\ pc = "idle"
    /\ req' = [r EXCEPT !.Context = DefaultContext(r.Context),
                        !.Action = DefaultAction(r.Action)]
    /\ IF req'.Action # "destroy"
       THEN /\ pc' = "getMainTf"
            /\ UNCHANGED <<attempt, lastCode, lastError, response, prepCode, prepCalls, ret, iterations>>
       ELSE EnterRun(code)
    /\ UNCHANGED <<codeContent, code, prompt, http, staged, actionCalls, allFailed,
                   genCalls, handlerGenCalls, sleeps, refusals, execResult, execStaged>>
    /\ UNCHANGED <<cancelledAt, tfError, mainTfErr>>
    /\ UNCHANGED genFailures

\* GetMainTf, then the choice between generating and reusing the stored code
\* faulty variant: the handler generates code for every request
SkipsGenerationNever(r) == FALSE

\* the handler reuses the stored code instead of generating
SkipsGeneration(r) == r.Action = "apply" /\ r.Description = ""

\* faulty variant: the content is read whatever the call returned
MainTfContentUnchecked(o, st) == ExecutorMainTf(st)

\* codeContent after the call: the stored main.tf, or "" when the call failed
MainTfContent(o, st) == IF o = "ok" THEN ExecutorMainTf(st) ELSE <<>>

GetMainTf(o) ==
    /\ pc = "getMainTf"
    /\ CtxAllows(o = "transport")
    /\ LET content == MainTfContent(o, staged)
       IN IF ~SkipsGeneration(req)
          THEN /\ pc' = "handlerGenerate"
               /\ codeContent' = content
               /\ UNCHANGED <<req, code, attempt, lastCode, lastError, response,
                              prepCode, prepCalls, ret, iterations>>
          ELSE /\ req' = [req EXCEPT !.Description = Placeholder]
               /\ code' = content
               /\ codeContent' = <<>>
               /\ EnterRun(content)
    /\ UNCHANGED <<prompt, http, staged, actionCalls, allFailed,
                   genCalls, handlerGenCalls, sleeps, refusals, execResult, execStaged>>
    /\ mainTfErr' = (pc' = "handlerGenerate" /\ o # "ok")
    /\ UNCHANGED <<cancelledAt, tfError>>
    /\ UNCHANGED genFailures

\* the handler's call of generateTerraformCode(description, nil, codeContent)
HandlerGenerate(llm) ==
    /\ pc = "handlerGenerate"
    /\ CtxAllows(llm.failed)
    /\ LET gen == generateTerraformCode(req.Description, NilTerraformError, codeContent, llm)
       IN /\ prompt' = gen.prompt
          /\ handlerGenCalls' = handlerGenCalls + 1
          /\ codeContent' = <<>>
          /\ IF gen.err # NoError
             THEN /\ pc' = "responded"
                  /\ http' = [status |-> 500, body |-> NilResponse]
                  /\ code' = gen.code
                  /\ UNCHANGED <<attempt, lastCode, lastError, response, prepCode, prepCalls,
                                 ret, iterations>>
             ELSE /\ code' = gen.code
                  /\ http' = http
                  /\ EnterRun(gen.code)
    /\ UNCHANGED <<req, staged, actionCalls, allFailed, genCalls, sleeps,
                   refusals, execResult, execStaged>>
    /\ mainTfErr' = FALSE
    /\ UNCHANGED <<cancelledAt, tfError>>
    /\ UNCHANGED genFailures

\* after executeTerraformAction returned: error check, code override, encode
HandlerFinish ==
    /\ pc = "returned"
    /\ IF ret.err # NoError
       THEN /\ pc' = "responded"
            /\ http' = [status |-> 500, body |-> NilResponse]
       ELSE IF ret.resp.isNil
       THEN /\ pc' = "panicked"
            /\ http' = http
       ELSE /\ pc' = "responded"
            /\ http' = [status |-> 200,
                        body |-> IF code # <<>> THEN [ret.resp EXCEPT !.Code = code]
                                 ELSE ret.resp]
    /\ UNCHANGED <<req, codeContent, code, attempt, lastCode, lastError, response,
                   prepCode, prepCalls, prompt, ret, staged>>
    /\ UNCHANGED history
    /\ UNCHANGED <<cancelledAt, tfError, mainTfErr>>

\* ---------------------------------------------------- prepareWorkspace
\* A preparation RPC answered success=false returns a nil Go error: the
\* caller drops the response message (`_`), so the step counts as done.
CanAnswer(o) == o = "refused" => refusals < MaxRefusals

Refused(o) == IF o = "refused" THEN refusals + 1 ELSE refusals

\* the attempt goes on after prepareWorkspace returned nil
AfterPreparation(a, resp) == IF NeedsRegeneration(a, resp) THEN "regenerate" ELSE "executeAction"

\* faulty variant: ensureContextAndWorkspace stops after CreateContext
PrepSuccessorSkipsWorkspace(p, a, resp) ==
    CASE p = "clearCode" -> "createContext"
      [] p = "createContext" -> "appendCode"
      [] p = "createWorkspace" -> "appendCode"
      [] OTHER -> AfterPreparation(a, resp)

\* where prepareWorkspace goes when the RPC issued at p returned nil
PrepSuccessor(p, a, resp) ==
    CASE p = "clearCode" -> "createContext"
      [] p = "createContext" -> "createWorkspace"
      [] p = "createWorkspace" -> "appendCode"
      [] OTHER -> AfterPreparation(a, resp)

\* the RPCs a completed prepareWorkspace has issued
PrepDone == <<"ClearCode", "CreateContext", "CreateWorkspace", "AppendCode">>

\* a preparation step failed: executeTerraformAction returns (nil, err)
AbortPreparation(err) ==
    /\ pc' = "returned"
    /\ ret' = PrepFailureReturn(err)
    /\ staged' = staged

ClearCode(o) ==
    /\ pc = "clearCode"
    /\ prepCalls' = Append(prepCalls, "ClearCode")
    /\ CtxAllows(o = "transport")
    /\ CanAnswer(o)
    /\ IF o = "transport" THEN AbortPreparation(ErrClear)
       ELSE /\ pc' = PrepSuccessor(pc, attempt, response)
            /\ staged' = IF o = "ok" THEN ExecutorClear(staged) ELSE staged
            /\ ret' = ret
    /\ refusals' = Refused(o)
    /\ UNCHANGED <<req, codeContent, code, attempt, lastCode, lastError, response,
                   prepCode, prompt, http, iterations, actionCalls, allFailed,
                   genCalls, handlerGenCalls, sleeps, execResult, execStaged>>
    /\ UNCHANGED <<cancelledAt, tfError, mainTfErr>>
    /\ UNCHANGED genFailures

CreateContext(o) ==
    /\ pc = "createContext"
    /\ prepCalls' = Append(prepCalls, "CreateContext")
    /\ CtxAllows(o = "transport")
    /\ CanAnswer(o)
    /\ IF o = "transport" THEN AbortPreparation(ErrCreateContext)
       ELSE /\ pc' = PrepSuccessor(pc, attempt, response)
            /\ UNCHANGED <<staged, ret>>
    /\ refusals' = Refused(o)
    /\ UNCHANGED <<req, codeContent, code, attempt, lastCode, lastError, response,
                   prepCode, prompt, http, iterations, actionCalls, allFailed,
                   genCalls, handlerGenCalls, sleeps, execResult, execStaged>>
    /\ UNCHANGED <<cancelledAt, tfError, mainTfErr>>
    /\ UNCHANGED genFailures

CreateWorkspace(o) ==
    /\ pc = "createWorkspace"
    /\ prepCalls' = Append(prepCalls, "CreateWorkspace")
    /\ CtxAllows(o = "transport")
    /\ CanAnswer(o)
    /\ IF o = "transport" THEN AbortPreparation(ErrCreateWorkspace)
       ELSE /\ pc' = PrepSuccessor(pc, attempt, response)
            /\ UNCHANGED <<staged, ret>>
    /\ refusals' = Refused(o)
    /\ UNCHANGED <<req, codeContent, code, attempt, lastCode, lastError, response,
                   prepCode, prompt, http, iterations, actionCalls, allFailed,
                   genCalls, handlerGenCalls, sleeps, execResult, execStaged>>
    /\ UNCHANGED <<cancelledAt, tfError, mainTfErr>>
    /\ UNCHANGED genFailures

AppendCode(o) ==
    /\ pc = "appendCode"
    /\ prepCalls' = Append(prepCalls, "AppendCode")
    /\ CtxAllows(o = "transport")
    /\ CanAnswer(o)
    /\ IF o = "transport" THEN AbortPreparation(ErrAppend)
       ELSE /\ pc' = PrepSuccessor(pc, attempt, response)
            /\ staged' = IF o = "ok" THEN ExecutorAppend(staged, prepCode) ELSE staged
            /\ ret' = ret
    /\ refusals' = Refused(o)
    /\ UNCHANGED <<req, codeContent, code, attempt, lastCode, lastError, response,
                   prepCode, prompt, http, iterations, actionCalls, allFailed,
                   genCalls, handlerGenCalls, sleeps, execResult, execStaged>>
    /\ UNCHANGED <<cancelledAt, tfError, mainTfErr>>
    /\ UNCHANGED genFailures

\* --------------------------------------------- executeTerraformAction
\* "Previous Attempt Analysis": parse the previous result, ask for new code
Regenerate(llm) ==
    /\ pc = "regenerate"
    /\ CtxAllows(llm.failed)
    /\ tfError' = parseTerraformError(response)
    /\ LET gen == generateTerraformCode(req.Description, tfError', lastCode, llm)
       IN /\ prompt' = gen.prompt
          /\ genCalls' = genCalls + 1
          /\ lastCode' = CodeAfterGeneration(lastCode, gen)
          /\ IF gen.err # NoError
             THEN /\ lastError' = gen.err
                  /\ allFailed' = FALSE
                  /\ genFailures' = genFailures + 1
                  /\ pc' = AfterGeneration(gen)
             ELSE /\ UNCHANGED <<lastError, allFailed, genFailures>>
                  /\ pc' = AfterGeneration(gen)
    /\ UNCHANGED <<req, codeContent, code, attempt, response, prepCode, prepCalls, ret, http,
                   staged, iterations, actionCalls, handlerGenCalls,
                   sleeps, refusals, execResult, execStaged>>
    /\ UNCHANGED <<cancelledAt, mainTfErr>>

\* executeAction and the evaluation of what it returned
ExecuteAction(rpc) ==
    /\ pc = "executeAction"
    /\ CtxAllows(rpc.transport)
    /\ LET r == executeAction(req.Action, rpc)
           issued == req.Action \in KnownActions
       IN /\ actionCalls' = IF issued THEN actionCalls + 1 ELSE actionCalls
          /\ execResult' = IF issued THEN rpc ELSE execResult
          /\ execStaged' = IF issued THEN staged ELSE execStaged
          /\ IF r.err # NoError
             THEN /\ response' = r.resp
                  /\ lastError' = r.err
                  /\ allFailed' = FALSE
                  /\ pc' = "sleepExecute"
                  /\ ret' = ret
             ELSE IF IsSuccess(r.resp)
             THEN /\ ret' = SuccessReturn(r.resp, lastCode)
                  /\ response' = ret'.resp
                  /\ allFailed' = FALSE
                  /\ pc' = "returned"
                  /\ lastError' = lastError
             ELSE /\ response' = r.resp
                  /\ UNCHANGED <<lastError, allFailed>>
                  /\ IF IsLastAttempt(attempt)
                     THEN /\ ret' = ExhaustedReturn(r.resp, lastError)
                          /\ pc' = "returned"
                     ELSE /\ ret' = ret
                          /\ pc' = "sleepRetry"
    /\ prompt' = NoPrompt
    /\ UNCHANGED <<req, codeContent, code, attempt, lastCode, prepCode, prepCalls, http,
                   staged, iterations, genCalls, handlerGenCalls, sleeps, refusals>>
    /\ UNCHANGED <<cancelledAt, mainTfErr>>
    /\ tfError' = NilTerraformError
    /\ UNCHANGED genFailures

SleepPcs == {"sleepGenerate", "sleepExecute", "sleepRetry"}

\* time.Sleep(retryConfig.Delay), then attempt++ and the loop condition
Sleep ==
    /\ pc \in SleepPcs
    /\ sleeps' = sleeps + 1
    /\ prompt' = NoPrompt
    /\ LoopHead(attempt + 1, lastCode, response, lastError)
    /\ UNCHANGED <<req, codeContent, code, lastCode, lastError, response,
                   http, staged, actionCalls, allFailed, genCalls,
                   handlerGenCalls, refusals, execResult, execStaged>>
    /\ UNCHANGED <<cancelledAt, mainTfErr>>
    /\ tfError' = NilTerraformError
    /\ UNCHANGED genFailures

\* the caller gives the request up (connection closed, deadline passed):
\* r.Context() is done from here on
Cancel ==
    /\ pc \notin {"idle", "returned", "responded", "panicked"}
    /\ ~Cancelled
    /\ cancelledAt' = pc
    /\ UNCHANGED <<tfError, mainTfErr>>
    /\ UNCHANGED <<pc, req, codeContent, code, attempt, lastCode, lastError, response,
                   prepCode, prepCalls, prompt, ret, http, staged>>
    /\ UNCHANGED history

\* ---------------------------------------------------------- specification
Next ==
    \/ \E r \in Requests : HandleRequest(r)
    \/ \E o \in PrepAnswers : GetMainTf(o)
    \/ \E llm \in LlmOutcomes : HandlerGenerate(llm)
    \/ \E o \in PrepAnswers : ClearCode(o)
    \/ \E o \in PrepAnswers : CreateContext(o)
    \/ \E o \in PrepAnswers : CreateWorkspace(o)
    \/ \E o \in PrepAnswers : AppendCode(o)
    \/ \E llm \in LlmOutcomes : Regenerate(llm)
    \/ \E rpc \in RpcOutcomes : ExecuteAction(rpc)
    \/ Sleep
    \/ HandlerFinish

Spec == Init /\ [][Next]_vars

\* the same program against an executor that may also answer a preparation
\* RPC with success=false
NextRefusing ==
    \/ \E r \in Requests : HandleRequest(r)
    \/ \E o \in PrepOutcomes : GetMainTf(o)
    \/ \E llm \in LlmOutcomes : HandlerGenerate(llm)
    \/ \E o \in PrepOutcomes : ClearCode(o)
    \/ \E o \in PrepOutcomes : CreateContext(o)
    \/ \E o \in PrepOutcomes : CreateWorkspace(o)
    \/ \E o \in PrepOutcomes : AppendCode(o)
    \/ \E llm \in LlmOutcomes : Regenerate(llm)
    \/ \E rpc \in RpcOutcomes : ExecuteAction(rpc)
    \/ Sleep
    \/ HandlerFinish

SpecRefusing == Init /\ [][NextRefusing]_vars

\* parseTerraformError on its own, over error texts of up to MaxLines lines
ParseLines ==
    {<<>>,
     <<"E">>,
     <<"o", "n", " ">> \o Marker \o <<" ", "x">>,
     <<" ", "r", "1", "\t">>}

RECURSIVE JoinLines(_)
JoinLines(ls) ==
    IF Len(ls) = 1 THEN ls[1] ELSE ls[1] \o <<"\n">> \o JoinLines(Tail(ls))

ParseTexts == {JoinLines(ls) : ls \in UNION {[1..k -> ParseLines] : k \in 1..MaxLines}}

InitParse ==
    /\ pc = "parse"
    /\ response \in {TerraformResponse(FALSE, o, t) : o \in Outputs, t \in ParseTexts}
    /\ req = NoRequest
    /\ codeContent = <<>>
    /\ code = <<>>
    /\ attempt = 1
    /\ lastCode = <<>>
    /\ lastError = NoError
    /\ prepCode = <<>>
    /\ prepCalls = PrepDone
    /\ prompt = NoPrompt
    /\ ret = NoReturn
    /\ http = NoHttp
    /\ staged = <<>>
    /\ iterations = 2
    /\ actionCalls = 1
    /\ allFailed = TRUE
    /\ genCalls = 0
    /\ genFailures = 0
    /\ handlerGenCalls = 0
    /\ sleeps = 1
    /\ refusals = 0
    /\ execResult = NoRpc
    /\ execStaged = <<>>
    /\ cancelledAt = NotCancelled
    /\ tfError = NilTerraformError
    /\ mainTfErr = FALSE

\* tfError := s.parseTerraformError(response)
Parse ==
    /\ pc = "parse"
    /\ tfError' = parseTerraformError(response)
    /\ pc' = "parsed"
    /\ UNCHANGED <<req, codeContent, code, attempt, lastCode, lastError, response,
                   prepCode, prepCalls, prompt, ret, http, staged, cancelledAt,
                   mainTfErr>>
    /\ UNCHANGED history

SpecParse == InitParse /\ [][Parse]_vars

\* the same program with a caller that may cancel the request
NextCancelling == Next \/ Cancel

SpecCancelling == Init /\ [][NextCancelling]_vars

\* ------------------------------------------------------------------ claims
Terminal == {"responded", "panicked"}

Ended == {"returned"} \cup Terminal

\* the executor answered the most recent action RPC with a success
ExecutorSaidSuccess ==
    ~execResult.transport /\ execResult.Success /\ execResult.Error = <<>>

\* how far the request has come: the handler's prologue, then the loop
\* bodies in turn, then the return and the answer
PcRank(p) ==
    CASE p = "idle" -> 0
      [] p = "getMainTf" -> 1
      [] p = "handlerGenerate" -> 2
      [] p = "clearCode" -> 3
      [] p = "createContext" -> 4
      [] p = "createWorkspace" -> 5
      [] p = "appendCode" -> 6
      [] p = "regenerate" -> 7
      [] p = "executeAction" -> 8
      [] p \in SleepPcs -> 9
      [] p = "returned" -> 10
      [] OTHER -> 11

Rank ==
    IF PcRank(pc) < 3 THEN PcRank(pc)
    ELSE IF PcRank(pc) < 10 THEN 12 * (attempt + 1) + PcRank(pc)
    ELSE 12 * (MaxAttempts + 2) + PcRank(pc)

\* C1: whatever the collaborators answer, one run of executeTerraformAction
\* enters its loop body at most MaxAttempts times, and every step brings the
\* request strictly nearer to its end: no run goes on for ever.
C1_TerminatesWithinMaxAttempts ==
    /\ [](iterations <= MaxAttempts /\ attempt <= MaxAttempts)
    /\ [][Rank' > Rank]_vars

C1_Witness == pc = "returned" /\ iterations = MaxAttempts /\ sleeps = MaxAttempts

\* C2: a run issues at most MaxAttempts action RPCs and at most
\* MaxAttempts - 1 generation requests, and no generation request before the
\* first action RPC.
C2_CallBudget ==
    /\ actionCalls <= MaxAttempts
    /\ genCalls <= MaxAttempts - 1
    /\ (genCalls > 0 => actionCalls > 0)

C2_Witness == actionCalls = MaxAttempts /\ genCalls = MaxAttempts - 1

\* C3: once the executor answered an action RPC with succeeded=true and an
\* empty error, the run has returned, and from then on no preparation, action
\* RPC, generation request or backoff wait happens.
C3_SuccessEndsRun ==
    /\ [](ExecutorSaidSuccess => pc \in Ended)
    /\ [][ExecutorSaidSuccess =>
            UNCHANGED <<iterations, actionCalls, genCalls, sleeps, staged, prepCode>>]_vars

C3_Witness == ExecutorSaidSuccess /\ pc = "responded" /\ attempt = 2 /\ genCalls = 2

\* C4: when all MaxAttempts attempts got a failed result from the executor,
\* executeTerraformAction returns the last of them as the executor gave it
\* (success flag, output, error) and a nil error.
C4_ExhaustedVerbatim ==
    (ret.returned /\ allFailed /\ actionCalls = MaxAttempts) =>
        /\ ret.err = NoError
        /\ ~ret.resp.isNil
        /\ ret.resp.Success = execResult.Success
        /\ ret.resp.Output = execResult.Output
        /\ ret.resp.Error = execResult.Error

C4_Witness ==
    /\ ret.returned /\ allFailed /\ actionCalls = MaxAttempts
    /\ execResult.Success /\ execResult.Output = "out2"

\* C5: a failed generation request leaves lastCode as it was, and the next
\* attempt's prepareWorkspace is called with the code this attempt prepared.
C5_GenerationFailureKeepsCode ==
    /\ [][(pc = "regenerate" /\ pc' = "sleepGenerate") => lastCode' = lastCode]_vars
    /\ [][(pc = "sleepGenerate" /\ pc' = "clearCode") => prepCode' = prepCode]_vars

C5_Witness ==
    /\ pc = "clearCode" /\ attempt = 2 /\ actionCalls = 1 /\ genCalls = 1
    /\ lastError = ErrGenerate /\ prepCode # <<>>

\* C6: a destroy request never makes a generation request, neither in the
\* handler nor in the retry loop.
C6_DestroyNeverGenerates ==
    req.Action = "destroy" => (handlerGenCalls = 0 /\ genCalls = 0)

\* C7: when the plan or apply RPC of an attempt is issued right after a
\* successful regeneration, the staged code is the regenerated code.
C7_ActionRunsRevisedCode ==
    (pc = "executeAction" /\ prompt.kind = "error" /\ req.Action \in {"plan", "apply"}) =>
        staged = lastCode

\* C8: a successful plan or apply run returns in Code the code that was staged when the
\* successful action RPC ran (nothing is staged between that RPC and the
\* return).
C8_SuccessCodeIsStagedCode ==
    (pc = "returned" /\ ret.err = NoError /\ IsSuccess(ret.resp)
        /\ req.Action \in {"plan", "apply"}) =>
            ret.resp.Code = staged

\* C9: a preparation failure ends the run only when it happens in the last
\* attempt; in any earlier attempt the run goes on.
C9_PreparationFailureIsRetried ==
    (pc = "returned" /\ ret.err \in PrepErrors) => attempt = MaxAttempts - 1

\* C10 as claimed: executeTerraformAction returns a non-nil error only when a
\* collaborator call failed, and otherwise a non-nil result.
C10_ErrorOnlyFromCollaborators ==
    ret.returned =>
        /\ ret.err # NoError => ret.err \in CollaboratorErrors
        /\ ret.err = NoError => ~ret.resp.isNil

\* C10 as amended: a non-nil error comes from a failed collaborator call or
\* from an action string that is none of plan, apply, destroy; with a nil
\* error the result is non-nil, and the handler answers 500 exactly when the
\* error is non-nil.
C10_ErrorOnlyFromCollaboratorsOrUnknownAction ==
    ret.returned =>
        /\ ret.err \in {NoError, ErrUnknownAction} \cup CollaboratorErrors
        /\ ret.err = ErrUnknownAction => req.Action \notin KnownActions
        /\ ret.err = NoError => ~ret.resp.isNil
        /\ pc = "responded" => (http.status = 500 <=> ret.err # NoError)

C10_Witness ==
    /\ pc = "responded" /\ ret.returned /\ ret.err = NoError
    /\ ~IsSuccess(ret.resp) /\ http.status = 200 /\ lastError # NoError

\* C11: a result with the success flag true is returned by
\* executeTerraformAction only when the executor answered the last action RPC
\* with succeeded=true and an empty error; an exhausted run returns a result
\* whose success flag is false.
C11_SuccessFlagOnlyOnSuccess ==
    (ret.returned /\ ~ret.resp.isNil /\ ret.resp.Success) =>
        (ExecutorSaidSuccess /\ ret.resp.Error = <<>>)

\* C12: when the caller's context is cancelled during the backoff wait after
\* an attempt, the next attempt does not start: the run stays in the wait or
\* ends, and it does not end with the error of a preparation RPC (no
\* preparation step was issued).
C12_CancelledWaitStartsNoAttempt ==
    cancelledAt \in SleepPcs =>
        /\ pc \in SleepPcs \cup Ended
        /\ ret.err \notin PrepErrors

\* C13: once the caller's context is cancelled, the run starts no backoff
\* wait: a collaborator call that fails because of the cancellation is not
\* followed by time.Sleep.
C13_NoWaitAfterCancellation ==
    (Cancelled /\ cancelledAt \notin SleepPcs) => pc \notin SleepPcs

\* C14: generateTerraformCode builds the error-fix prompt whenever it is
\* given a failure record, whether the existing code is empty or not (the
\* call of the retry loop); without one it builds the modification prompt
\* when the existing code is non-empty and the initial prompt otherwise (the
\* call of the handler).
C14_PromptSelection ==
    [][/\ pc = "handlerGenerate" =>
            prompt' = IF codeContent # <<>>
                      THEN generateModificationPrompt(req.Description, codeContent)
                      ELSE generateInitialInfrastructurePrompt(req.Description)
       /\ pc = "regenerate" =>
            prompt' = generateErrorPrompt(req.Description, lastCode,
                                          parseTerraformError(response))]_vars

C14_Witness ==
    /\ prompt.kind = "error" /\ prompt.code = <<>> /\ prompt.message # <<>>
    /\ handlerGenCalls = 0 /\ genCalls = 1

\* the RPCs of one preparation
PrepOrder == PrepDone

PrepPcs == {"clearCode", "createContext", "createWorkspace", "appendCode"}

\* C15: the RPCs that one prepareWorkspace has issued are at every moment a
\* prefix of ClearCode, CreateContext, CreateWorkspace, AppendCode (that
\* order, none twice, none before the one before it returned), and a
\* preparation that succeeded has issued exactly these four.
C15_PreparationOrder ==
    /\ Len(prepCalls) <= Len(PrepOrder)
    /\ prepCalls = SubSeq(PrepOrder, 1, Len(prepCalls))
    /\ pc \in {"regenerate", "executeAction"} \cup SleepPcs => prepCalls = PrepOrder
    /\ (pc = "returned" /\ ret.err \notin PrepErrors /\ iterations > 0) => prepCalls = PrepOrder

C15_Witness ==
    /\ pc = "executeAction" /\ attempt = 2 /\ prepCalls = PrepOrder /\ staged = prepCode
    /\ prepCode # <<>>

\* C16: the result a plan or apply request is answered with carries in Code
\* the code that was staged when the last action RPC of the run was issued
\* (nothing is staged between that RPC and the answer); stated for the runs
\* that start from non-empty code.
C16_ResultCodeIsExecutedCode ==
    (pc = "responded" /\ http.status = 200 /\ req.Action \in {"plan", "apply"}
        /\ code # <<>>) =>
            http.body.Code = staged

\* the positions at which the next step is an RPC to the executor, made with
\* req.Context and req.Workspace
RemoteCallPcs == {"getMainTf", "executeAction"} \cup PrepPcs

\* C17: whatever the request left empty, every RPC to the executor is made
\* with a non-empty context and a non-empty workspace.
C17_IdsNeverEmpty ==
    pc \in RemoteCallPcs => (req.Context # "" /\ req.Workspace # "")

\* C18: the action RPC of an attempt is reached only directly from the
\* attempt's completed preparation, and a generation request of the retry
\* loop is reached only directly from the evaluation of a failed result: no
\* generation request lies between a preparation and its action RPC.
C18_PhasesFollowStateMachine ==
    [][/\ (pc' = "executeAction" /\ pc # "executeAction") => pc = "appendCode"
       /\ (pc' = "regenerate" /\ pc # "regenerate") => pc = "executeAction"]_vars

\* C19: the policy delay is waited only between two attempts: no time.Sleep
\* follows the last attempt, however it ended, so a run waits at most
\* MaxAttempts - 1 times.
C19_NoWaitAfterFinalAttempt ==
    /\ pc \in SleepPcs => attempt < MaxAttempts - 1
    /\ sleeps <= MaxAttempts - 1

\* C20: an error-fix prompt of a plan or apply run embeds the output and the
\* error text of the last action RPC together with the code that was staged
\* when that RPC was issued.
C20_ErrorPromptPairsCodeWithItsResult ==
    (prompt.kind = "error" /\ req.Action \in {"plan", "apply"}) =>
        /\ prompt.output = execResult.Output
        /\ prompt.message = execResult.Error
        /\ prompt.code = execStaged

\* C21: a transport error of the action RPC does not end the run: it is
\* recorded in lastError, and on a non-final attempt the policy delay is
\* waited and the next loop body is entered. When the run ends without any
\* later result, the caller gets an error: the transport error itself when
\* the loop runs out, the error of a preparation step when a later
\* preparation fails.
C21_TransportErrorIsRetried ==
    /\ [][(pc = "executeAction" /\ pc' = "sleepExecute" /\ req.Action \in KnownActions) =>
            (lastError' = ErrRpc /\ response'.isNil /\ ret' = ret)]_vars
    /\ [][(pc = "sleepExecute" /\ attempt < MaxAttempts - 1 /\ pc' # pc) =>
            (pc' = "clearCode" /\ attempt' = attempt + 1 /\ sleeps' = sleeps + 1
             /\ lastError' = lastError)]_vars
    /\ []((ret.returned /\ lastError = ErrRpc /\ response.isNil) =>
            (ret.err \in {ErrRpc} \cup PrepErrors /\ ret.resp.isNil))
    /\ []((pc = "responded" /\ ret.returned /\ ret.err = ErrRpc) => http.status = 500)

C21_Witness ==
    /\ pc = "responded" /\ http.status = 500 /\ ret.err = ErrRpc
    /\ actionCalls = MaxAttempts /\ iterations = MaxAttempts /\ genCalls > 0

\* C22: a preparation step that the executor answers with success=false
\* fails the preparation like a transport error does: no later step is
\* performed, prepareWorkspace returns an error and the action RPC of the
\* attempt is not issued.
C22_RefusedStepAbortsPreparation ==
    [][(pc \in PrepPcs /\ refusals' > refusals) =>
            (pc' = "returned" /\ ret'.err \in PrepErrors)]_vars

\* C23: in a destroy run every prepareWorkspace is called with empty code,
\* and what it stages is empty.
C23_DestroyStagesEmptyCode ==
    (req.Action = "destroy" /\ pc \notin {"idle"}) =>
        /\ prepCode = <<>>
        /\ (pc = "executeAction" => staged = <<>>)

\* C24: whenever prepareWorkspace has returned nil, the main.tf staged in
\* the workspace is exactly the code it was given: nothing is left of what
\* was staged before, nothing is missing.
C24_PreparationReplacesStagedCode ==
    (pc \in {"regenerate", "executeAction"} /\ prepCalls = PrepOrder) => staged = prepCode

\* C25: parseTerraformError answers for every error text: Message and
\* TerraformOutput are the result's error and output unchanged, and Resource
\* is the trimmed second line after the first line that contains the marker,
\* or empty when no line contains the marker or fewer than two lines follow
\* the first one that does.
C25_ParseTerraformError ==
    pc = "parsed" =>
        LET lines == Split(response.Error, "\n")
            marked == {j \in 1..Len(lines) : Contains(lines[j], Marker)}
        IN /\ ~tfError.isNil
           /\ tfError.Message = response.Error
           /\ tfError.TerraformOutput = response.Output
           /\ tfError.Resource =
                IF marked # {} /\ Min(marked) + 2 <= Len(lines)
                THEN TrimSpace(lines[Min(marked) + 2])
                ELSE <<>>

C25_Witness ==
    /\ pc = "parsed" /\ tfError.Resource = <<"r", "1">>
    /\ Len(Split(response.Error, "\n")) = MaxLines
    /\ ~Contains(Split(response.Error, "\n")[1], Marker)

\* C26: GetMainTf never ends the request: whatever it returns, the handler
\* goes on to the generation or, for an apply without description, into the
\* run. When it returned an error or no content, the handler generates from
\* the initial prompt, and unless the generation itself fails the run starts.
C26_GetMainTfFailureIsAbsence ==
    /\ [][pc = "getMainTf" => pc' \in {"getMainTf", "handlerGenerate", "clearCode"}]_vars
    /\ []((pc = "handlerGenerate" /\ mainTfErr) => codeContent = <<>>)
    /\ [][(pc = "handlerGenerate" /\ mainTfErr /\ pc' # pc) =>
            /\ prompt' = generateInitialInfrastructurePrompt(req.Description)
            /\ (pc' = "responded" => http'.status = 500 /\ handlerGenCalls' = 1)
            /\ pc' \in {"clearCode", "responded"}]_vars

C26_Witness ==
    /\ pc = "clearCode" /\ attempt = 0 /\ handlerGenCalls = 1
    /\ prompt.kind = "initial" /\ staged # <<>> /\ prepCode # <<>>

\* C27: executeTerraformAction never returns a nil result together with a
\* nil error, so the handler, which writes response.Code after its error
\* check, never dereferences a nil result.
C27_NeverNilResultAndNilError ==
    /\ ret.returned => (ret.err # NoError \/ ~ret.resp.isNil)
    /\ pc # "panicked"
    /\ (pc = "responded" /\ http.status = 200) => ~http.body.isNil

C27_Witness ==
    /\ pc = "responded" /\ http.status = 500
    /\ ret.returned /\ ret.err = ErrGenerate /\ ~ret.resp.isNil /\ attempt = MaxAttempts

\* C28: the attempt after a transport error of the plan or apply RPC makes
\* no generation request, and its action RPC runs on the same staged code as
\* the RPC that failed.
C28_TransportErrorRepeatsSameCode ==
    (pc = "executeAction" /\ attempt > 0 /\ actionCalls > 0 /\ execResult.transport
        /\ req.Action \in {"plan", "apply"}) =>
            /\ response.isNil
            /\ prompt.kind = "none"
            /\ staged = execStaged

\* C29: a loop body whose generation request fails issues no action RPC and
\* still uses up one attempt: with G failed generation requests a run issues
\* at most MaxAttempts - G action RPCs. When the generation request of the
\* last loop body fails, the run returns that error.
C29_GenerationFailureConsumesAttempt ==
    /\ [](actionCalls + genFailures <= iterations /\ iterations <= MaxAttempts)
    /\ [][(pc = "regenerate" /\ pc' = "sleepGenerate") =>
            (actionCalls' = actionCalls /\ lastError' = ErrGenerate)]_vars
    /\ [][(pc = "sleepGenerate" /\ pc' # pc) =>
            (actionCalls' = actionCalls /\ attempt' = attempt + 1
             /\ (IsLastAttempt(attempt) =>
                    (pc' = "returned" /\ ret'.err = ErrGenerate)))]_vars

C29_Witness ==
    /\ pc = "returned" /\ ret.err = ErrGenerate /\ genFailures = 2
    /\ actionCalls = MaxAttempts - 2 /\ iterations = MaxAttempts

\* C30: for an action string that is none of plan, apply, destroy no action
\* RPC is ever issued and the retry loop makes no generation request. The
\* run never returns a result: it returns the unknown-action error, or the
\* error of a preparation step that failed, and the unknown-action error
\* only after MaxAttempts loop bodies, each with a completed preparation and
\* a wait.
C30_UnknownActionRunsAllAttempts ==
    (req.Action \notin KnownActions /\ pc # "idle") =>
        /\ actionCalls = 0 /\ genCalls = 0
        /\ ret.returned => (ret.resp.isNil /\ ret.err \in {ErrUnknownAction} \cup PrepErrors)
        /\ (ret.returned /\ ret.err = ErrUnknownAction) =>
                /\ iterations = MaxAttempts /\ sleeps = MaxAttempts
                /\ prepCalls = PrepOrder /\ staged = prepCode
        /\ pc = "responded" => http.status = 500

C30_Witness ==
    /\ req.Action \notin KnownActions /\ pc = "responded" /\ http.status = 500
    /\ ret.err = ErrUnknownAction /\ sleeps = MaxAttempts /\ staged # <<>>

\* C31: for an apply request with an empty description the handler makes no
\* generation request: right after GetMainTf the run starts, its code is the
\* stored main.tf or empty, and the description is the placeholder, which is
\* the description of every error-fix prompt of the run.
C31_ApplyWithoutDescriptionReusesCode ==
    /\ [][(pc = "getMainTf" /\ req.Action = "apply" /\ req.Description = "" /\ pc' # pc) =>
            /\ pc' = "clearCode" /\ attempt' = 0
            /\ handlerGenCalls' = 0 /\ prompt' = NoPrompt
            /\ code' \in {ExecutorMainTf(staged), <<>>}
            /\ lastCode' = code' /\ prepCode' = code'
            /\ req'.Description = Placeholder]_vars
    /\ []((req.Action = "apply" /\ req.Description = Placeholder) =>
            /\ handlerGenCalls = 0
            /\ prompt.kind \in {"none", "error"}
            /\ prompt.kind = "error" => prompt.description = Placeholder)
    /\ []((req.Action = "apply" /\ pc \notin {"idle", "getMainTf"}) => req.Description # "")

C31_Witness ==
    /\ req.Action = "apply" /\ handlerGenCalls = 0 /\ genCalls = 1
    /\ prompt.kind = "error" /\ prompt.description = Placeholder
    /\ prompt.code # <<>> /\ prompt.code = code

====
